---- MODULE Spec2Model ----
(***************************************************************************)
(* map2slim: mapping of annotation rows to the nearest terms of a GO slim. *)
(*                                                                         *)
(* A term id n stands for the canonical id "GO:" followed by n written     *)
(* with 7 zero-padded digits, so that the order of the numbers is the      *)
(* order sorted() gives the ids.  A column of a row is a sequence of       *)
(* one-character strings.                                                  *)
(***************************************************************************)
EXTENDS Integers, Sequences, FiniteSets, TLC

\* ------------------------------------------------------------------ bounds
NumTerms == 3
MaxEdges == 3

Terms == 1..NumTerms

\* ------------------------------------------------------------ state
VARIABLES
    parents,      \* ParentMap: term id -> set of parent ids (is_a, part_of)
    slim,         \* the slim set
    start,        \* the term nearest_slim_ancestors is asked about
    direct,       \* returned direct set
    all_anc,      \* returned all set
    pc,           \* position of the run
    terms,        \* the graph: term id -> record of the term
    aspect,       \* --aspect: None or Some(letter)
    gff,          \* --gff
    count_mode,   \* --count
    fed,          \* the rows of the association file read so far
    leafh,        \* slim id -> products mapped directly
    allh,         \* slim id -> products mapped through any slim ancestor
    seen_rows,    \* records already printed
    out,          \* the records printed, in order
    depth,        \* count mode: slim id -> depth in the slim DAG
    report,       \* count mode: the count lines printed, in order
    slimfile,     \* the lines of the slim file
    ontfiles,     \* the ontology files, each a sequence of lines
    alt2primary   \* alternate id -> id of the term that declares it

fileVars  == <<slimfile, ontfiles, alt2primary>>
graphVars == <<parents, slim, terms, fileVars>>
callVars  == <<start, direct, all_anc>>
assocVars == <<aspect, gff, count_mode, fed, leafh, allh, seen_rows, out, depth, report>>
vars == <<graphVars, callVars, assocVars, pc>>

\* ------------------------------------------------------- helper values
\* Optional[int]: None is <<>>, the value d is <<d>>
None == <<>>
Some(d) == <<d>>

Range(s) == {s[i] : i \in DOMAIN s}

\* sorted() of a set of ids
RECURSIVE Sorted(_)
Sorted(S) ==
    IF S = {} THEN <<>>
    ELSE LET m == CHOOSE x \in S : \A y \in S : x <= y
         IN  <<m>> \o Sorted(S \ {m})

\* all orders in which a Python set over Terms can be iterated
Orders == {o \in [1..NumTerms -> Terms] : Range(o) = Terms}

\* the members of set S in the order ord lists them: `for p in S`
RECURSIVE IterFrom(_, _, _)
IterFrom(S, ord, i) ==
    IF i > Len(ord) THEN <<>>
    ELSE IF ord[i] \in S THEN <<ord[i]>> \o IterFrom(S, ord, i + 1)
    ELSE IterFrom(S, ord, i + 1)

Iter(S, ord) == IterFrom(S, ord, 1)

\* parents.get(node, ())
ParentsGet(pm, node) == IF node \in DOMAIN pm THEN pm[node] ELSE {}

\* ------------------------------------------- nearest_slim_ancestors
\* the most iterations of one `while` loop the model follows
MaxPops == NumTerms * NumTerms + 1

\* VisitParent without the test `if p in visited` of lines 245-246
VisitParent_NoVisitedTest(st, p, d, sl) ==
    LET st1 == [st EXCEPT !.visited = @ \cup {p}] IN
    IF p \in sl
    THEN LET st2 == [st1 EXCEPT !.all_anc = @ \cup {p}] IN
         IF st2.best_depth = None \/ d + 1 < st2.best_depth[1]
         THEN [st2 EXCEPT !.best_depth = Some(d + 1), !.direct = {p}]
         ELSE IF d + 1 = st2.best_depth[1]
              THEN [st2 EXCEPT !.direct = @ \cup {p}]
              ELSE st2
    ELSE [st1 EXCEPT !.q = Append(@, <<p, d + 1>>)]

\* VisitParent with `direct = {p}` in place of `direct.add(p)` on a tie
VisitParent_TieReplaces(st, p, d, sl) ==
    IF p \in st.visited THEN st
    ELSE LET st1 == [st EXCEPT !.visited = @ \cup {p}] IN
         IF p \in sl
         THEN LET st2 == [st1 EXCEPT !.all_anc = @ \cup {p}] IN
              IF st2.best_depth = None \/ d + 1 <= st2.best_depth[1]
              THEN [st2 EXCEPT !.best_depth = Some(d + 1), !.direct = {p}]
              ELSE st2
         ELSE [st1 EXCEPT !.q = Append(@, <<p, d + 1>>)]

\* lines 245-260: the body of `for p in parents.get(node, ())`
VisitParent(st, p, d, sl) ==
    IF p \in st.visited THEN st
    ELSE LET st1 == [st EXCEPT !.visited = @ \cup {p}] IN
         IF p \in sl
         THEN LET st2 == [st1 EXCEPT !.all_anc = @ \cup {p}] IN
              IF st2.best_depth = None \/ d + 1 < st2.best_depth[1]
              THEN [st2 EXCEPT !.best_depth = Some(d + 1), !.direct = {p}]
              ELSE IF d + 1 = st2.best_depth[1]
                   THEN [st2 EXCEPT !.direct = @ \cup {p}]
                   ELSE st2
         ELSE [st1 EXCEPT !.q = Append(@, <<p, d + 1>>)]

RECURSIVE ForParents(_, _, _, _)
ForParents(st, ps, d, sl) ==
    IF ps = <<>> THEN st
    ELSE ForParents(VisitParent(st, Head(ps), d, sl), Tail(ps), d, sl)

\* lines 242-262: `while q:` with the early break; pops counts the calls
\* of q.popleft()
RECURSIVE WalkLoop(_, _, _, _)
WalkLoop(st, sl, pm, ord) ==
    IF st.q = <<>> \/ st.pops >= MaxPops THEN st
    ELSE LET node == Head(st.q)[1]
             d    == Head(st.q)[2]
             st1  == ForParents([st EXCEPT !.q = Tail(@), !.pops = @ + 1],
                                Iter(ParentsGet(pm, node), ord), d, sl)
         IN  IF /\ st1.best_depth # None
                /\ st1.q # <<>>
                /\ Head(st1.q)[2] > st1.best_depth[1]
             THEN st1
             ELSE WalkLoop(st1, sl, pm, ord)

\* lines 236-262
BoundedWalk(s, sl, pm, ord) ==
    WalkLoop([visited |-> {s}, q |-> <<<<s, 0>>>>, best_depth |-> None,
              direct |-> {}, all_anc |-> {}, pops |-> 0], sl, pm, ord)

\* lines 273-279: `while dq:`; pops counts the calls of dq.popleft()
RECURSIVE ClosureLoop(_, _, _)
ClosureLoop(st, pm, ord) ==
    IF st.dq = <<>> \/ st.pops >= MaxPops THEN st
    ELSE LET x   == Head(st.dq)
             new == Iter(ParentsGet(pm, x) \ st.seen, ord)
         IN  ClosureLoop([dq |-> Tail(st.dq) \o new, seen |-> st.seen \cup Range(new),
                          anc |-> st.anc \cup Range(new), pops |-> st.pops + 1],
                         pm, ord)

\* lines 270-280: the closure loop started at d0
ClosureRun(d0, pm, ord) ==
    ClosureLoop([dq |-> <<d0>>, seen |-> {d0}, anc |-> {}, pops |-> 0], pm, ord)

\* lines 270-280: upward closure of d0, d0 itself excluded
UpClosure(d0, pm, ord) == ClosureRun(d0, pm, ord).anc

\* PruneDirect without lines 264-289: every candidate is kept
PruneDirect_KeepsAll(dir, pm, ord) == dir

\* lines 264-289: drop a candidate that is an ancestor of another one
PruneDirect(dir, pm, ord) ==
    IF Cardinality(dir) > 1
    THEN dir \ {a \in dir : \E b \in dir : a # b /\ a \in UpClosure(b, pm, ord)}
    ELSE dir

\* FallbackAll without the test `if p in slim` of line 304
FallbackAll_AnyAncestor(s, sl, pm, ord) == UpClosure(s, pm, ord)

\* lines 294-306: the full closure run when the walk found no slim id
FallbackAll(s, sl, pm, ord) == UpClosure(s, pm, ord) \cap sl

\* nearest_slim_ancestors without the early return of lines 233-234
nearest_slim_ancestors_NoEarlyReturn(s, sl, pm, ord) ==
    LET w == BoundedWalk(s, sl, pm, ord)
        a == IF w.all_anc = {} THEN FallbackAll(s, sl, pm, ord)
             ELSE w.all_anc
    IN  <<PruneDirect(w.direct, pm, ord), a>>

\* lines 222-308
nearest_slim_ancestors(s, sl, pm, ord) ==
    IF s \in sl THEN <<{s}, {s}>>
    ELSE LET w == BoundedWalk(s, sl, pm, ord)
             a == IF w.all_anc = {} THEN FallbackAll(s, sl, pm, ord)
                  ELSE w.all_anc
         IN  <<PruneDirect(w.direct, pm, ord), a>>

\* ------------------------------------------------------------ strings
Digits == <<"0", "1", "2", "3", "4", "5", "6", "7", "8", "9">>
UpperChars == <<"A", "B", "C", "D", "E", "F", "G", "H", "I", "J", "K", "L", "M",
                "N", "O", "P", "Q", "R", "S", "T", "U", "V", "W", "X", "Y", "Z">>
LowerChars == <<"a", "b", "c", "d", "e", "f", "g", "h", "i", "j", "k", "l", "m",
                "n", "o", "p", "q", "r", "s", "t", "u", "v", "w", "x", "y", "z">>

DigitSet == Range(Digits)
UpperSet == Range(UpperChars)
LowerSet == Range(LowerChars)
DigitValOf == [c \in DigitSet |-> (CHOOSE k \in DOMAIN Digits : Digits[k] = c) - 1]
UpperOf == [c \in LowerSet |-> UpperChars[CHOOSE i \in DOMAIN LowerChars : LowerChars[i] = c]]
LowerOf == [c \in UpperSet |-> LowerChars[CHOOSE i \in DOMAIN UpperChars : UpperChars[i] = c]]

IsDigit(c) == c \in DigitSet
DigitVal(c) == DigitValOf[c]
DigitChar(k) == Digits[k + 1]

\* str.upper() and str.lower(), one character
ToUpper(c) == IF c \in LowerSet THEN UpperOf[c] ELSE c
ToLower(c) == IF c \in UpperSet THEN LowerOf[c] ELSE c
StrUpper(s) == [i \in DOMAIN s |-> ToUpper(s[i])]
StrLower(s) == [i \in DOMAIN s |-> ToLower(s[i])]

IsSpace(c) == c \in {" ", "\t", "\r", "\n"}

\* str.strip()
RECURSIVE LStrip(_)
LStrip(s) == IF s # <<>> /\ IsSpace(Head(s)) THEN LStrip(Tail(s)) ELSE s
RECURSIVE RStrip(_)
RStrip(s) == IF s # <<>> /\ IsSpace(s[Len(s)])
             THEN RStrip(SubSeq(s, 1, Len(s) - 1)) ELSE s
Strip(s) == RStrip(LStrip(s))

StartsWith(s, pre) == Len(s) >= Len(pre) /\ SubSeq(s, 1, Len(pre)) = pre

\* str.isdigit()
AllDigits(s) == s # <<>> /\ \A i \in DOMAIN s : IsDigit(s[i])

\* the number a string of digits writes; zero-padding leaves it unchanged
RECURSIVE DigitsValue(_)
DigitsValue(ds) ==
    IF ds = <<>> THEN 0
    ELSE DigitsValue(SubSeq(ds, 1, Len(ds) - 1)) * 10 + DigitVal(ds[Len(ds)])

\* the digits of a canonical id
IdWidth == 7

RECURSIVE Pow10(_)
Pow10(k) == IF k = 0 THEN 1 ELSE 10 * Pow10(k - 1)

\* the canonical id of term n as a string: "GO:" and IdWidth digits
IdString(n) ==
    <<"G", "O", ":">> \o [i \in 1..IdWidth |-> DigitChar((n \div Pow10(IdWidth - i)) % 10)]

\* re.search(r"(GO:\d{7})", s, flags=re.IGNORECASE) matches at position i
GoIdAt(s, i) ==
    /\ i + 2 + IdWidth <= Len(s)
    /\ ToUpper(s[i]) = "G" /\ ToUpper(s[i + 1]) = "O" /\ s[i + 2] = ":"
    /\ \A j \in 1..IdWidth : IsDigit(s[i + 2 + j])

\* lines 191-202
normalize_go_id(str) ==
    LET s == Strip(str) IN
    IF s = <<>> THEN None
    ELSE IF \E i \in DOMAIN s : GoIdAt(s, i)
    THEN LET i == CHOOSE k \in DOMAIN s :
                      GoIdAt(s, k) /\ \A j \in 1..(k - 1) : ~GoIdAt(s, j)
         IN  Some(DigitsValue(SubSeq(s, i + 3, i + 2 + IdWidth)))
    ELSE IF AllDigits(s) /\ Len(s) <= IdWidth THEN Some(DigitsValue(s))
    ELSE None

\* -------------------------------------------------------------- the graph
\* display name of term t in the ontology file
TermName(t) == <<"t", DigitChar(t)>>

\* lines 56-64: a term with the defaults of its fields
GOTerm(id) ==
    [id |-> id, name |-> <<>>, namespace |-> <<>>, is_obsolete |-> FALSE,
     alt_ids |-> {}, parents |-> {}]

\* A line of an ontology file is a tuple: <<"[Term]">>, <<"[Typedef]">> (any
\* other bracketed line), <<"id", n>>, <<"name", s>>, <<"namespace", s>>,
\* <<"is_obsolete", b>>, <<"alt_id", n>>, <<"is_a", n>>,
\* <<"relationship", verb, n>>, or a line of another kind.  A line of a flat
\* id list is <<"text", s>>.

\* lines 74-78, with the alternate ids of the record already in the graph
\* kept in the new record
commit_MergesAltIds(st) ==
    IF st.cur # None
    THEN LET cur == st.cur[1]
             rec == IF cur.id \in DOMAIN st.terms
                    THEN [cur EXCEPT !.alt_ids = @ \cup st.terms[cur.id].alt_ids]
                    ELSE cur
         IN
         [st EXCEPT
            !.terms = [k \in DOMAIN st.terms \cup {cur.id} |->
                          IF k = cur.id THEN rec ELSE st.terms[k]],
            !.alt2primary = [a \in DOMAIN st.alt2primary \cup cur.alt_ids |->
                                IF a \in cur.alt_ids THEN cur.id
                                ELSE st.alt2primary[a]]]
    ELSE st

\* lines 74-78: cur is None for a stanza without an id line; the ids of the
\* model are never empty and no line sets typedef
commit(st) ==
    IF st.cur # None
    THEN LET cur == st.cur[1] IN
         [st EXCEPT
            !.terms = [k \in DOMAIN st.terms \cup {cur.id} |->
                          IF k = cur.id THEN cur ELSE st.terms[k]],
            !.alt2primary = [a \in DOMAIN st.alt2primary \cup cur.alt_ids |->
                                IF a \in cur.alt_ids THEN cur.id
                                ELSE st.alt2primary[a]]]
    ELSE st

\* lines 105-126: a line inside a [Term] stanza
TermLine(st, line) ==
    IF line[1] = "id" THEN [st EXCEPT !.cur = Some(GOTerm(line[2]))]
    ELSE IF st.cur = None THEN st
    ELSE IF line[1] = "name" THEN [st EXCEPT !.cur[1].name = line[2]]
    ELSE IF line[1] = "namespace" THEN [st EXCEPT !.cur[1].namespace = line[2]]
    ELSE IF line[1] = "is_obsolete" THEN [st EXCEPT !.cur[1].is_obsolete = line[2]]
    ELSE IF line[1] = "alt_id" THEN [st EXCEPT !.cur[1].alt_ids = @ \cup {line[2]}]
    ELSE IF line[1] = "is_a"
    THEN [st EXCEPT !.cur[1].parents = @ \cup {<<line[2], "is_a">>}]
    ELSE IF line[1] = "relationship" /\ line[2] = "part_of"
    THEN [st EXCEPT !.cur[1].parents = @ \cup {<<line[3], "part_of">>}]
    ELSE st

\* lines 86-126: one line of a file
OboLine(st, line) ==
    IF line[1] = "[Term]"
    THEN [(IF st.in_term THEN commit(st) ELSE st) EXCEPT !.cur = None, !.in_term = TRUE]
    ELSE IF line[1] = "[Typedef]"
    THEN [(IF st.in_term THEN commit(st) ELSE st) EXCEPT !.cur = None, !.in_term = FALSE]
    ELSE IF ~st.in_term THEN st
    ELSE TermLine(st, line)

RECURSIVE OboLines(_, _)
OboLines(st, lines) ==
    IF lines = <<>> THEN st ELSE OboLines(OboLine(st, Head(lines)), Tail(lines))

\* lines 80-128: one file
OboFile(st, lines) ==
    LET e == OboLines([st EXCEPT !.in_term = FALSE, !.cur = None], lines)
    IN  IF e.in_term THEN commit(e) ELSE e

RECURSIVE OboFiles(_, _)
OboFiles(st, paths) ==
    IF paths = <<>> THEN st ELSE OboFiles(OboFile(st, Head(paths)), Tail(paths))

\* lines 67-129
parse_obo(paths) ==
    LET e == OboFiles([terms |-> <<>>, alt2primary |-> <<>>, in_term |-> FALSE,
                       cur |-> None], paths)
    IN  [terms |-> e.terms, alt2primary |-> e.alt2primary]

\* line 621
Allowed == {"is_a", "part_of"}

\* lines 205-211
build_parent_map(tm, allowed) ==
    [tid \in {t \in DOMAIN tm : \E e \in tm[t].parents : e[2] \in allowed} |->
        {e[1] : e \in {f \in tm[tid].parents : f[2] \in allowed}}]

\* lines 147-150: the files of the model are shorter than the 256 characters
\* that are sniffed
looks_obo(lines) ==
    \/ \E i \in DOMAIN lines : lines[i][1] = "[Term]"
    \/ (lines # <<>> /\ lines[1][1] = "format-version")

\* line 169: raw.split("#", 1)[0].strip()
BeforeHash(str) ==
    IF \E i \in DOMAIN str : str[i] = "#"
    THEN SubSeq(str, 1, (CHOOSE i \in DOMAIN str :
                            str[i] = "#" /\ \A j \in 1..(i - 1) : str[j] # "#") - 1)
    ELSE str

\* the longest run of at most IdWidth digits of s from position i
RECURSIVE DigitRun(_, _, _)
DigitRun(s, i, n) ==
    IF n < IdWidth /\ i + n <= Len(s) /\ IsDigit(s[i + n]) THEN DigitRun(s, i, n + 1)
    ELSE n

\* line 172: re.search(r"(GO:\d{7}|\d{1,7})", line, flags=re.IGNORECASE);
\* the match as a string, None when there is none
FirstIdToken(s) ==
    IF \E i \in DOMAIN s : GoIdAt(s, i) \/ IsDigit(s[i])
    THEN LET i == CHOOSE k \in DOMAIN s :
                      /\ GoIdAt(s, k) \/ IsDigit(s[k])
                      /\ \A j \in 1..(k - 1) : ~(GoIdAt(s, j) \/ IsDigit(s[j]))
         IN  IF GoIdAt(s, i) THEN Some(SubSeq(s, i, i + 2 + IdWidth))
             ELSE Some(SubSeq(s, i, i + DigitRun(s, i, 0) - 1))
    ELSE None

\* lines 168-186: what a line of a flat id list adds to the slim set:
\* "skip", "raise" (gid.split("GO:")[1] of a match not written GO: in upper
\* case is an IndexError), or the id kept
ListLine(str, a2p, tm) ==
    LET line == Strip(BeforeHash(str)) IN
    IF line = <<>> THEN [kind |-> "skip"]
    ELSE LET m == FirstIdToken(line) IN
         IF m = None THEN [kind |-> "skip"]
         ELSE IF ~AllDigits(m[1]) /\ ~StartsWith(m[1], <<"G", "O", ":">>)
         THEN [kind |-> "raise"]
         ELSE LET n   == IF AllDigits(m[1]) THEN DigitsValue(m[1])
                         ELSE DigitsValue(SubSeq(m[1], 4, Len(m[1])))
                  gid == IF n \in DOMAIN a2p THEN a2p[n] ELSE n
              IN  IF gid \notin DOMAIN tm THEN [kind |-> "skip"]
                  ELSE IF tm[gid].is_obsolete THEN [kind |-> "skip"]
                  ELSE [kind |-> "keep", id |-> gid]

\* lines 139-187: the slim set, None when the load raises
load_slim_any(lines, a2p, tm) ==
    IF looks_obo(lines)
    THEN LET slim_terms == parse_obo(<<lines>>).terms
         IN  Some({tid \in DOMAIN slim_terms :
                     ~slim_terms[tid].is_obsolete /\ tid \in DOMAIN tm})
    ELSE LET res == [i \in DOMAIN lines |-> ListLine(lines[i][2], a2p, tm)]
         IN  IF \E i \in DOMAIN lines : res[i].kind = "raise" THEN None
             ELSE Some({res[i].id : i \in {j \in DOMAIN lines : res[j].kind = "keep"}})

\* ------------------------------------------------------ association rows
\* cols[i] if len(cols) > i else ""
Col(cols, i) == IF Len(cols) > i THEN cols[i + 1] ELSE <<>>

\* lines 315-316, on the columns of the line
is_comment(cols) ==
    \/ (cols[1] # <<>> /\ cols[1][1] = "!")
    \/ \A i \in DOMAIN cols : Strip(cols[i]) = <<>>

\* dict.get(key, set()) and defaultdict's h[key].add(prod)
HGet(h, key) == IF key \in DOMAIN h THEN h[key] ELSE {}

\* HAdd with `h[key] = {prod}` in place of `h[key].add(prod)`
HAdd_Overwrites(h, key, prod) ==
    [k \in DOMAIN h \cup {key} |-> IF k = key THEN {prod} ELSE h[k]]

\* lines 470-473: h[key].add(prod)
HAdd(h, key, prod) ==
    [k \in DOMAIN h \cup {key} |-> IF k = key THEN HGet(h, key) \cup {prod} ELSE h[k]]

RECURSIVE HAddAll(_, _, _)
HAddAll(h, keys, prod) ==
    IF keys = {} THEN h
    ELSE LET k == CHOOSE x \in keys : TRUE
         IN  HAddAll(HAdd(h, k, prod), keys \ {k}, prod)

\* lines 417-441: the term reference, product and NOT flag of a row;
\* found is FALSE when a GFF type names no term
Extract(cols, g, tm) ==
    IF g
    THEN LET type_val == Col(cols, 2)
             named    == {tid \in DOMAIN tm : tm[tid].name = type_val}
         IN  IF StartsWith(type_val, <<"S", "O", ":">>)
             THEN [found |-> TRUE, is_not |-> <<>>, acc |-> type_val,
                   prod |-> Col(cols, 8)]
             ELSE IF named = {}
             THEN [found |-> FALSE, is_not |-> <<>>, acc |-> <<>>,
                   prod |-> Col(cols, 8)]
             ELSE [found |-> TRUE, is_not |-> <<>>,
                   acc |-> IdString(CHOOSE tid \in named : TRUE),
                   prod |-> Col(cols, 8)]
    ELSE [found |-> TRUE, is_not |-> Col(cols, 3), acc |-> Col(cols, 4),
          prod |-> Col(cols, 1)]

\* IsNotRow without `.lower()`
IsNotRow_CaseSensitive(x) == x.is_not # <<>> /\ Strip(x.is_not) = <<"n", "o", "t">>

\* lines 443-445
IsNotRow(x) == x.is_not # <<>> /\ StrLower(Strip(x.is_not)) = <<"n", "o", "t">>

\* AspectMismatch without `and not gff`
AspectMismatch_GffToo(cols, asp, g) ==
    /\ asp # None
    /\ StrUpper(Strip(Col(cols, 8))) # asp[1]

\* lines 447-451
AspectMismatch(cols, asp, g) ==
    /\ asp # None /\ ~g
    /\ StrUpper(Strip(Col(cols, 8))) # asp[1]

\* lines 409-460: the graph term a row is resolved to, None when the row is
\* skipped as a comment or dropped before the resolver is called
RowTerm(cols, asp, g, tm) ==
    IF is_comment(cols) THEN None
    ELSE LET x == Extract(cols, g, tm) IN
         IF ~x.found THEN None
         ELSE IF IsNotRow(x) THEN None
         ELSE IF AspectMismatch(cols, asp, g) THEN None
         ELSE LET acc_norm == normalize_go_id(x.acc) IN
              IF acc_norm = None THEN None
              ELSE IF acc_norm[1] \notin DOMAIN tm THEN None
              ELSE IF tm[acc_norm[1]].is_obsolete THEN None
              ELSE acc_norm

\* new_cols = list(cols); new_cols[i] = s
Replaced(cols, i, s) == [cols EXCEPT ![i + 1] = IdString(s)]

\* Emit without the test `if key not in seen_rows` of lines 482-483 and 491-492
RECURSIVE Emit_NoDedup(_, _, _, _)
Emit_NoDedup(acc, ss, cols, i) ==
    IF ss = <<>> THEN acc
    ELSE Emit_NoDedup([seen_rows |-> acc.seen_rows \cup {Replaced(cols, i, Head(ss))},
                       out |-> Append(acc.out, Replaced(cols, i, Head(ss)))],
                      Tail(ss), cols, i)

\* lines 477-494: print one record per direct slim id, in sorted order,
\* unless the record was printed before
RECURSIVE Emit(_, _, _, _)
Emit(acc, ss, cols, i) ==
    IF ss = <<>> THEN acc
    ELSE LET key == Replaced(cols, i, Head(ss)) IN
         IF key \in acc.seen_rows THEN Emit(acc, Tail(ss), cols, i)
         ELSE Emit([seen_rows |-> acc.seen_rows \cup {key},
                    out |-> Append(acc.out, key)], Tail(ss), cols, i)

\* Account with the two counters fed from each other's set
Account_CountersSwapped(st, cols, prod, r, g, cm) ==
    IF r[1] = {} /\ r[2] = {} THEN st
    ELSE LET e == IF cm THEN [seen_rows |-> st.seen_rows, out |-> st.out]
                  ELSE Emit([seen_rows |-> st.seen_rows, out |-> st.out],
                            Sorted(r[1]), cols, IF g THEN 2 ELSE 4)
         IN  [st EXCEPT !.leafh = HAddAll(@, r[2], prod),
                        !.allh = HAddAll(@, r[1], prod),
                        !.seen_rows = e.seen_rows,
                        !.out = e.out]

\* lines 465-494: a resolved row with resolver result r is added to the
\* counters and, in map mode, printed
Account(st, cols, prod, r, g, cm) ==
    IF r[1] = {} /\ r[2] = {} THEN st
    ELSE LET e == IF cm THEN [seen_rows |-> st.seen_rows, out |-> st.out]
                  ELSE Emit([seen_rows |-> st.seen_rows, out |-> st.out],
                            Sorted(r[1]), cols, IF g THEN 2 ELSE 4)
         IN  [st EXCEPT !.leafh = HAddAll(@, r[1], prod),
                        !.allh = HAddAll(@, r[2], prod),
                        !.seen_rows = e.seen_rows,
                        !.out = e.out]

\* lines 464-494: the row that names graph term t, once the resolver has
\* returned r for it
Resolved(st, cols, t, r, g, cm, tm) ==
    Account([st EXCEPT !.start = t, !.direct = r[1], !.all_anc = r[2]],
            cols, Extract(cols, g, tm).prod, r, g, cm)

\* lines 408-494: the body of `for raw in fh` on the locals and accumulators
\* st, for a run configured with asp, g, cm over graph tm, sl, pm: the
\* outcomes when the resolver iterates its sets in any order of ords
RowEffects(st, cols, ords, asp, g, cm, tm, sl, pm) ==
    LET t == RowTerm(cols, asp, g, tm) IN
    IF t = None THEN {st}
    ELSE {Resolved(st, cols, t[1], r, g, cm, tm) :
            r \in {nearest_slim_ancestors(t[1], sl, pm, ord) : ord \in ords}}

\* ------------------------------------------------------ count-mode output
\* lines 214-219
build_child_map(pm) ==
    [p \in UNION {pm[c] : c \in DOMAIN pm} |-> {c \in DOMAIN pm : p \in pm[c]}]

\* children.get(x, set())
ChildrenGet(ch, x) == IF x \in DOMAIN ch THEN ch[x] ELSE {}

\* line 510: the parents of s that are slim ids
SlimParents(s, sl, pm) == {q \in ParentsGet(pm, s) : q \in sl}

\* line 511: the slim ids without a slim parent, in iteration order
Roots(sl, pm, ord) == Iter({s \in sl : SlimParents(s, sl, pm) = {}}, ord)

\* depth.get(s, 0)
DepthGet(d, s) == IF s \in DOMAIN d THEN d[s] ELSE 0

\* VisitChild with the test of line 520 dropped: the depth of a slim child is
\* rewritten on every visit
VisitChild_LastWins(st, c, x, sl) ==
    IF c \in sl
    THEN LET nd == st.depth[x] + 1 IN
         [st EXCEPT !.depth = (c :> nd) @@ st.depth,
                    !.dq = Append(@, c)]
    ELSE st

\* lines 518-522: the body of `for c in children.get(x, set())`
VisitChild(st, c, x, sl) ==
    IF c \in sl
    THEN LET nd == st.depth[x] + 1 IN
         IF c \notin DOMAIN st.depth \/ nd < st.depth[c]
         THEN [st EXCEPT !.depth = (c :> nd) @@ st.depth,
                         !.dq = Append(@, c)]
         ELSE st
    ELSE st

RECURSIVE ForChildren(_, _, _, _)
ForChildren(st, cs, x, sl) ==
    IF cs = <<>> THEN st
    ELSE ForChildren(VisitChild(st, Head(cs), x, sl), Tail(cs), x, sl)

\* lines 515-522: `while dq:`; pops counts the calls of dq.popleft()
RECURSIVE DepthLoop(_, _, _, _)
DepthLoop(st, ch, sl, ord) ==
    IF st.dq = <<>> \/ st.pops >= MaxPops THEN st
    ELSE LET x == Head(st.dq) IN
         DepthLoop(ForChildren([st EXCEPT !.dq = Tail(@), !.pops = @ + 1],
                               Iter(ChildrenGet(ch, x), ord), x, sl),
                   ch, sl, ord)

\* lines 506-522
SlimDepths(sl, pm, ord) ==
    LET roots == Roots(sl, pm, ord) IN
    DepthLoop([depth |-> [r \in Range(roots) |-> 0], dq |-> roots, pops |-> 0],
              build_child_map(pm), sl, ord)

\* line 529: sorted(slim, key=sort_key), the key being (depth, id)
RECURSIVE SortedByDepth(_, _)
SortedByDepth(S, d) ==
    IF S = {} THEN <<>>
    ELSE LET m == CHOOSE x \in S : \A y \in S :
                      \/ DepthGet(d, x) < DepthGet(d, y)
                      \/ DepthGet(d, x) = DepthGet(d, y) /\ x <= y
         IN  <<m>> \o SortedByDepth(S \ {m}, d)

\* lines 530-541: the count line of slim id s, none when s is no graph term
CountLine(s, d, tm, lh, ah) ==
    IF s \notin DOMAIN tm THEN <<>>
    ELSE <<[id |-> s, indent |-> DepthGet(d, s) + 1,
            count_leaf |-> Cardinality(HGet(lh, s)),
            count_all |-> Cardinality(HGet(ah, s)),
            is_obs |-> tm[s].is_obsolete]>>

RECURSIVE CountLines(_, _, _, _, _)
CountLines(ss, d, tm, lh, ah) ==
    IF ss = <<>> THEN <<>>
    ELSE CountLine(Head(ss), d, tm, lh, ah) \o CountLines(Tail(ss), d, tm, lh, ah)

\* --------------------------------------------------- inputs of the resolver
Edges == {e \in Terms \X Terms : e[1] # e[2]}

RECURSIVE EdgeSets(_)
EdgeSets(k) ==
    IF k = 0 THEN {{}}
    ELSE LET prev == EdgeSets(k - 1)
         IN  prev \cup {s \cup {e} : s \in prev, e \in Edges}

ParentMapOf(es) == [t \in {e[1] : e \in es} |-> {e[2] : e \in {f \in es : f[1] = t}}]

ParentMaps == {ParentMapOf(es) : es \in EdgeSets(MaxEdges)}

\* ------------------------------------------------------ ontology files
RECURSIVE Concat(_)
Concat(ss) == IF ss = <<>> THEN <<>> ELSE Head(ss) \o Concat(Tail(ss))

SeqsUpTo(C, k) == UNION {[1..n -> C] : n \in 0..k}

\* the id of a term of the graph that is marked obsolete
ObsoleteId == NumTerms + 1

\* an alternate id of term 1
AltId == NumTerms + 2

\* the edge lines of a stanza: is_a to a higher id, part_of to a lower one
EdgeLines(t, ps) ==
    [i \in 1..Cardinality(ps) |->
        LET p == Sorted(ps)[i] IN
        IF p > t THEN <<"is_a", p>> ELSE <<"relationship", "part_of", p>>]

TermStanza(t, obs, alts, ps) ==
    <<<<"[Term]">>, <<"id", t>>, <<"name", TermName(t)>>>>
      \o (IF obs THEN <<<<"is_obsolete", TRUE>>>> ELSE <<>>)
      \o [i \in 1..Cardinality(alts) |-> <<"alt_id", Sorted(alts)[i]>>]
      \o EdgeLines(t, ps)

TypedefStanza == <<<<"[Typedef]">>, <<"id", 0>>, <<"name", <<"r">>>>>>

\* the ontology file that writes parent map pm, with one obsolete term more
OntologyOf(pm) ==
    Concat([t \in 1..NumTerms |-> TermStanza(t, FALSE, {}, ParentsGet(pm, t))])
      \o TermStanza(ObsoleteId, TRUE, {}, {}) \o TypedefStanza

GraphOf(pm) == parse_obo(<<OntologyOf(pm)>>).terms

\* ------------------------------------------------- process_assocs
MaxRows == 2

P1 == <<"g", "1">>
P2 == <<"g", "2">>
Filler == <<"x">>

\* a line of the primary (GAF) shape
Gaf(prod, is_not, acc, asp) ==
    <<<<"S", "G", "D">>, prod, Filler, is_not, acc, Filler, Filler, Filler, asp>>

\* a line of the alternate (GFF) shape
Gff(type_val, prod) ==
    <<Filler, Filler, type_val, Filler, Filler, Filler, Filler, Filler, prod>>

GafRows ==
    {Gaf(P1, <<>>, IdString(t), <<"P">>) : t \in Terms}
      \cup {Gaf(P1, <<>>, <<"1">>, <<"P">>),
            Gaf(P2, <<"N", "o", "t">>, IdString(2), <<"P">>),
            Gaf(P1, <<>>, IdString(1), <<"F">>),
            Gaf(P2, <<>>, IdString(1), <<" ", "p">>)}

GffRows ==
    {Gff(TermName(t), P1) : t \in Terms \cup {ObsoleteId}}
      \cup {Gff(<<"S", "O", ":", "1">>, P2)}

Rows == IF gff THEN GffRows ELSE GafRows

\* the order in which the sets of one run are iterated
Ascending == [i \in 1..NumTerms |-> i]

\* ontologies in which each of the first k terms has every higher-numbered
\* term as a parent
DenseMaps ==
    {ParentMapOf({e \in Edges : e[1] < e[2] /\ e[1] <= k}) : k \in 1..(NumTerms - 1)}

InitAssoc ==
    /\ \E pm \in DenseMaps :
         /\ terms = GraphOf(pm)
         /\ parents = build_parent_map(GraphOf(pm), Allowed)
    /\ slim \in SUBSET Terms
    /\ slimfile = <<>> /\ ontfiles = <<>> /\ alt2primary = <<>>
    /\ aspect \in {None, Some(<<"P">>)}
    /\ gff \in BOOLEAN
    /\ count_mode \in BOOLEAN
    /\ start = 0 /\ direct = {} /\ all_anc = {}
    /\ fed = <<>> /\ leafh = <<>> /\ allh = <<>>
    /\ seen_rows = {} /\ out = <<>>
    /\ depth = <<>> /\ report = <<>>
    /\ pc = "reading"

Locals == [leafh |-> leafh, allh |-> allh, seen_rows |-> seen_rows, out |-> out,
           start |-> start, direct |-> direct, all_anc |-> all_anc]

\* lines 408-494: one iteration of `for raw in fh` on the line cols, the
\* sets of the resolver iterated in some order of ords
ReadRow(cols, ords) ==
    \E n \in RowEffects(Locals, cols, ords, aspect, gff, count_mode, terms, slim, parents) :
        /\ fed' = Append(fed, cols)
        /\ leafh' = n.leafh /\ allh' = n.allh
        /\ seen_rows' = n.seen_rows /\ out' = n.out
        /\ start' = n.start /\ direct' = n.direct /\ all_anc' = n.all_anc
        /\ UNCHANGED <<graphVars, aspect, gff, count_mode, pc, depth, report>>

ProcessRow ==
    /\ pc = "reading"
    /\ Len(fed) < MaxRows
    /\ \E cols \in Rows : ReadRow(cols, {Ascending})

\* lines 496-543: the input is exhausted; in count mode the depths are
\* computed, the sets iterated in some order of ords, and the counts printed
Finish(ords) ==
    /\ pc = "reading"
    /\ pc' = "done"
    /\ IF count_mode
       THEN \E d \in {SlimDepths(slim, parents, ord).depth : ord \in ords} :
              /\ depth' = d
              /\ report' = CountLines(SortedByDepth(slim, d), d, terms, leafh, allh)
       ELSE UNCHANGED <<depth, report>>
    /\ UNCHANGED <<graphVars, callVars, aspect, gff, count_mode, fed, leafh, allh,
                   seen_rows, out>>

EndOfInput == Finish({Ascending})

NextAssoc == ProcessRow \/ EndOfInput

Spec == InitAssoc /\ [][NextAssoc]_vars

\* --------------------------- the resolver on every small parent map
\* the one-line association file that names term t
LineFor(t) == Gaf(P1, <<>>, IdString(t), <<"P">>)

InitNSA ==
    /\ \E pm \in ParentMaps :
         /\ terms = GraphOf(pm)
         /\ parents = build_parent_map(GraphOf(pm), Allowed)
    /\ slim \in SUBSET Terms
    /\ slimfile = <<>> /\ ontfiles = <<>> /\ alt2primary = <<>>
    /\ aspect = None /\ gff = FALSE /\ count_mode = FALSE
    /\ start \in Terms
    /\ direct = {} /\ all_anc = {}
    /\ fed = <<>> /\ leafh = <<>> /\ allh = <<>>
    /\ seen_rows = {} /\ out = <<>>
    /\ depth = <<>> /\ report = <<>>
    /\ pc = "reading"

\* the line that names start is read, its sets iterated in any order
ResolveRow ==
    /\ pc = "reading"
    /\ fed = <<>>
    /\ ReadRow(LineFor(start), Orders)

NextNSA == ResolveRow \/ EndOfInput

SpecNSA == InitNSA /\ [][NextNSA]_vars

\* ------------------------------- count mode on every small parent map
InitCount ==
    /\ \E pm \in ParentMaps :
         /\ terms = GraphOf(pm)
         /\ parents = build_parent_map(GraphOf(pm), Allowed)
    /\ slim \in SUBSET Terms
    /\ slimfile = <<>> /\ ontfiles = <<>> /\ alt2primary = <<>>
    /\ aspect = None /\ gff = FALSE /\ count_mode = TRUE
    /\ start \in Terms
    /\ direct = {} /\ all_anc = {}
    /\ fed = <<>> /\ leafh = <<>> /\ allh = <<>>
    /\ seen_rows = {} /\ out = <<>>
    /\ depth = <<>> /\ report = <<>>
    /\ pc = "reading"

\* the line that names start is read
CountRow ==
    /\ pc = "reading"
    /\ fed = <<>>
    /\ ReadRow(LineFor(start), {Ascending})

\* the one line of the file is read and the input is exhausted, the sets of
\* the depth loop iterated in any order
CountEnd == fed # <<>> /\ Finish(Orders)

NextCount == CountRow \/ CountEnd

SpecCount == InitCount /\ [][NextCount]_vars

\* ----------------------------------------- main: loading graph and slim
MaxSlimLines == 2

\* a stanza of the ontology file for term t: absent, live or obsolete; the
\* stanza of term 1 declares AltId, a live term is_a the next term
OntStanza(t, status) ==
    IF status = "absent" THEN <<>>
    ELSE TermStanza(t, status = "obsolete",
                    IF t = 1 THEN {AltId} ELSE {},
                    IF status = "live" /\ t < NumTerms THEN {t + 1} ELSE {})

OntFiles ==
    {Concat([t \in 1..NumTerms |-> OntStanza(t, f[t])]) \o TypedefStanza :
        f \in [Terms -> {"absent", "live", "obsolete"}]}

\* a stanza of the slim file for term 2 whose fields all differ from those of
\* the ontology's stanza of term 2
OldStanza ==
    <<<<"[Term]">>, <<"id", 2>>, <<"name", <<"o", "l", "d">>>>,
      <<"namespace", <<"b", "p">>>>, <<"is_obsolete", TRUE>>, <<"alt_id", AltId>>,
      <<"relationship", "part_of", 1>>>>

\* a stanza without an id line
NoIdStanza == <<<<"[Term]">>, <<"name", <<"n">>>>, <<"alt_id", AltId>>, <<"is_a", 1>>>>

\* the terms a slim file names
SlimNamed == {1, 2}

SlimStanzas ==
    {TermStanza(t, obs, {}, {}) : t \in SlimNamed, obs \in BOOLEAN}
      \cup {OldStanza, NoIdStanza}

ListLines ==
    {<<"text", IdString(t)>> : t \in SlimNamed}
      \cup {<<"text", <<"2">>>>,
            <<"text", StrLower(IdString(1))>>,
            <<"text", IdString(AltId) \o <<" ", "#", " ", "9">>>>}

SlimFiles ==
    {<<<<"format-version">>>> \o Concat(ss) : ss \in SeqsUpTo(SlimStanzas, MaxSlimLines)}
      \cup SeqsUpTo(ListLines, MaxSlimLines)

InitMain ==
    /\ slimfile \in SlimFiles
    /\ ontfiles \in {<<f>> : f \in OntFiles}
    /\ alt2primary = <<>>
    /\ terms = <<>> /\ parents = <<>> /\ slim = {}
    /\ aspect = None /\ gff = FALSE /\ count_mode = FALSE
    /\ start = 0 /\ direct = {} /\ all_anc = {}
    /\ fed = <<>> /\ leafh = <<>> /\ allh = <<>>
    /\ seen_rows = {} /\ out = <<>>
    /\ depth = <<>> /\ report = <<>>
    /\ pc = "main"

\* line 608
ParseOntology ==
    /\ pc = "main"
    /\ LET g == parse_obo(<<slimfile>> \o ontfiles)
       IN  terms' = g.terms /\ alt2primary' = g.alt2primary
    /\ pc' = "parsed"
    /\ UNCHANGED <<slimfile, ontfiles, parents, slim, callVars, assocVars>>

\* line 616
LoadSlim ==
    /\ pc = "parsed"
    /\ LET r == load_slim_any(slimfile, alt2primary, terms)
       IN  IF r = None THEN pc' = "raised" /\ slim' = slim
           ELSE pc' = "slim" /\ slim' = r[1]
    /\ UNCHANGED <<slimfile, ontfiles, alt2primary, terms, parents, callVars, assocVars>>

\* lines 621-622
BuildParents ==
    /\ pc = "slim"
    /\ parents' = build_parent_map(terms, Allowed)
    /\ pc' = "reading"
    /\ UNCHANGED <<fileVars, terms, slim, callVars, assocVars>>

\* the rows main's association file may hold: term 1 by its canonical id and
\* by the alternate id its stanza declares
MainRows == {LineFor(1), LineFor(AltId)}

\* line 638: process_assocs reads a line of the association file
MainRow ==
    /\ pc = "reading"
    /\ fed = <<>>
    /\ \E cols \in MainRows : ReadRow(cols, {Ascending})

NextMain == ParseOntology \/ LoadSlim \/ BuildParents \/ MainRow \/ EndOfInput

SpecMain == InitMain /\ [][NextMain]_vars

\* ------------------------------------------- reference notions of the claims
\* ids one upward edge away from some id of S
Up(S, pm) == UNION {ParentsGet(pm, x) : x \in S}

\* ids reachable from the ids of S by one or more upward edges
RECURSIVE ReachAcc(_, _, _)
ReachAcc(frontier, acc, pm) ==
    IF frontier \subseteq acc THEN acc
    ELSE ReachAcc(Up(frontier \ acc, pm), acc \cup frontier, pm)

Ancestors(s, pm) == ReachAcc(Up({s}, pm), {}, pm)

Acyclic(pm) == \A t \in Terms : t \notin Ancestors(t, pm)

\* ids reachable from s by a path of exactly k upward edges
RECURSIVE Level(_, _, _)
Level(s, k, pm) == IF k = 0 THEN {s} ELSE Up(Level(s, k - 1, pm), pm)

\* length of the shortest upward path from s to its ancestor x
Dist(s, x, pm) == CHOOSE k \in 1..NumTerms : x \in Level(s, k, pm) /\
                     \A j \in 1..(k - 1) : x \notin Level(s, j, pm)

SlimAncestors(s, sl, pm) == Ancestors(s, pm) \cap sl

\* the slim ancestors of s at the least distance from s
MinDistSlim(s, sl, pm) ==
    {x \in SlimAncestors(s, sl, pm) :
        \A y \in SlimAncestors(s, sl, pm) : Dist(s, x, pm) <= Dist(s, y, pm)}

Returned == fed = <<LineFor(start)>>

\* The result of the resolver does not depend on the order in which the sets
\* are iterated; ProcessRow iterates them in ascending order.
ResolverOrderFree ==
    Returned => \A ord \in Orders :
        nearest_slim_ancestors(start, slim, parents, ord) = <<direct, all_anc>>

\* C1: for a start term outside the slim set, the returned `all` set is the
\* set of every slim id reachable from start by one or more upward edges
\* (the unbounded upward closure from start intersected with the slim set).
C1_AllIsFullClosure ==
    (Returned /\ start \notin slim) => all_anc = SlimAncestors(start, slim, parents)

\* C2: on an acyclic parent map and for a start term outside the slim set,
\* every id of `direct` is a slim ancestor of start at the least distance any
\* slim ancestor has, and when no least-distance slim ancestor is an ancestor
\* of another one `direct` is the set of all of them (ties are kept).
C2_DirectIsNearest ==
    (Returned /\ start \notin slim /\ Acyclic(parents)) =>
        LET m == MinDistSlim(start, slim, parents) IN
        /\ direct \subseteq m
        /\ (\A a, b \in m : a # b => a \notin Ancestors(b, parents)) => direct = m

C2_Witness ==
    /\ Returned /\ start \notin slim /\ Acyclic(parents)
    /\ Cardinality(direct) = 2
    /\ direct = MinDistSlim(start, slim, parents)

\* C3: whenever two least-depth candidates A and B are such that A is
\* reachable from B by upward edges, `direct` does not contain A; on an
\* acyclic parent map `direct` still contains a candidate.
C3_SubsumedDropped ==
    (Returned /\ start \notin slim) =>
        LET m == MinDistSlim(start, slim, parents) IN
        /\ \A a, b \in m : (a # b /\ a \in Ancestors(b, parents)) => a \notin direct
        /\ (Acyclic(parents) /\ m # {}) => direct \cap m # {}

C3_Witness ==
    /\ Returned /\ start \notin slim /\ Acyclic(parents)
    /\ \E a, b \in MinDistSlim(start, slim, parents) :
          a # b /\ a \in Ancestors(b, parents) /\ a \notin direct /\ b \in direct

C5_NoSlimPathDropped ==
    (Returned /\ start \notin slim /\ SlimAncestors(start, slim, parents) = {}) =>
        /\ direct = {} /\ all_anc = {}
        /\ out = <<>> /\ seen_rows = {}
        /\ \A s \in Terms : HGet(leafh, s) = {} /\ HGet(allh, s) = {}

C5_Witness ==
    /\ Returned /\ start \notin slim /\ slim # {}
    /\ ParentsGet(parents, start) # {}
    /\ SlimAncestors(start, slim, parents) = {}
    /\ direct = {} /\ all_anc = {} /\ out = <<>>

\* ----------------------------------------- the rows of a run, for the claims
\* the step reads a line
RowRead == Len(fed') = Len(fed) + 1
NewRow == fed'[Len(fed')]

\* the line changes none of the output, the counters, the de-duplication set
NoEffect == UNCHANGED <<out, leafh, allh, seen_rows>>

\* column 3 is the word not, in any letter case
NotFlagged(cols) ==
    /\ Len(cols) > 3
    /\ Len(cols[4]) = 3
    /\ ToLower(cols[4][1]) = "n" /\ ToLower(cols[4][2]) = "o" /\ ToLower(cols[4][3]) = "t"

\* C7: in a run over primary-shape rows, a row whose NOT column (column 3) is
\* the word not in any letter case changes neither the output nor the
\* counters nor the de-duplication set.
C7_NotRowsSkipped ==
    [][(RowRead /\ ~gff /\ NotFlagged(NewRow)) => NoEffect]_vars

C7_Witness ==
    /\ ~gff /\ Len(fed) = 2
    /\ fed[1] = Gaf(P1, <<>>, IdString(2), <<"P">>)
    /\ fed[2] = Gaf(P2, <<"N", "o", "t">>, IdString(2), <<"P">>)
    /\ HGet(allh, 2) = {P1}

\* the letter of the aspect column, in upper case
SameLetters(a, b) == StrUpper(a) = StrUpper(b)

\* a GFF line that names term t adds its product to the all counter of t when
\* t is a slim id, and of every parent of t that is a slim id otherwise
GffCounted(cols) ==
    \A t \in Terms :
        cols[3] = TermName(t) =>
            \A s \in (IF t \in slim THEN {t} ELSE ParentsGet(parents, t) \cap slim) :
                cols[9] \in HGet(allh', s)

\* C8 as claimed: with an aspect filter configured, a primary-shape row whose
\* aspect column (column 8), compared case-insensitively, differs from the
\* filter has no effect; alternate-shape rows are not dropped by the filter.
C8_AspectFilter_Claimed ==
    [][(RowRead /\ aspect # None) =>
          /\ (~gff /\ ~SameLetters(Col(NewRow, 8), aspect[1])) => NoEffect
          /\ gff => GffCounted(NewRow)]_vars

\* C8 as amended: the aspect column is compared after its surrounding white
\* space is stripped.
C8_AspectFilter ==
    [][(RowRead /\ aspect # None) =>
          /\ (~gff /\ ~SameLetters(Strip(Col(NewRow, 8)), aspect[1])) => NoEffect
          /\ gff => GffCounted(NewRow)]_vars

C8_Witness ==
    /\ ~gff /\ aspect = Some(<<"P">>) /\ Len(fed) = 2
    /\ fed[1] = Gaf(P2, <<>>, IdString(1), <<" ", "p">>)
    /\ fed[2] = Gaf(P1, <<>>, IdString(1), <<"F">>)
    /\ 1 \in slim /\ HGet(allh, 1) = {P2}

\* the index of the term column of a line
TermCol == IF gff THEN 2 ELSE 4

\* what the mapper resolves line cols to: None when the line is skipped or
\* dropped before the resolver is called, else the graph term and the
\* resolver's result for it
RowOutcome(cols) ==
    LET t == RowTerm(cols, aspect, gff, terms) IN
    IF t = None THEN None
    ELSE Some(<<t[1], nearest_slim_ancestors(t[1], slim, parents, Ascending)>>)

\* the records line cols stands for: one per id of its direct set
RecordsOf(cols) ==
    LET o == RowOutcome(cols) IN
    IF o = None THEN {}
    ELSE {Replaced(cols, TermCol, s) : s \in o[1][2][1]}

\* op applied to each line of seq
RECURSIVE Each(_, _)
Each(op(_), seq) ==
    IF seq = <<>> THEN <<>> ELSE <<op(Head(seq))>> \o Each(op, Tail(seq))

\* the first of the lines read that stands for record rec, recs[k] being the
\* records of line k
FirstRow(rec, recs) ==
    CHOOSE k \in DOMAIN recs : rec \in recs[k] /\ \A j \in 1..(k - 1) : rec \notin recs[j]

\* C9: in map mode the output holds no record twice, it holds exactly the
\* records `row with its term column replaced by s` of the surviving rows
\* read and the ids s of their direct sets, and the records stand in the
\* order of the rows that first produced them.
C9_MapOutput ==
    ~count_mode =>
        \A recs \in {Each(RecordsOf, fed)} :
        /\ \A i, j \in DOMAIN out : i # j => out[i] # out[j]
        /\ Range(out) = UNION Range(recs)
        /\ \A i, j \in DOMAIN out :
              i < j => FirstRow(out[i], recs) <= FirstRow(out[j], recs)

C9_Witness ==
    /\ ~count_mode /\ Len(fed) = 2 /\ fed[1] # fed[2]
    /\ Len(out) = 2
    /\ RecordsOf(fed[1]) = Range(out)
    /\ RecordsOf(fed[2]) = Range(out)

\* the locals after the lines of fed are read from the start of a run in the
\* order seq of their indices, oc[k] being the outcome of line k
RECURSIVE RunOver(_, _, _)
RunOver(st, seq, oc) ==
    IF seq = <<>> THEN st
    ELSE LET k == Head(seq) IN
         RunOver(IF oc[k] = None THEN st
                 ELSE Resolved(st, fed[k], oc[k][1][1], oc[k][1][2], gff, count_mode, terms),
                 Tail(seq), oc)

FreshLocals == [leafh |-> <<>>, allh |-> <<>>, seen_rows |-> {}, out |-> <<>>,
                start |-> 0, direct |-> {}, all_anc |-> {}]

Reorderings(n) == {f \in [1..n -> 1..n] : Range(f) = 1..n}

\* C10: in count mode, reading the same rows in any other order ends with the
\* same leaf counter and the same all counter.
C10_CountOrderIndependent ==
    (count_mode /\ pc = "done") =>
        \A oc \in {Each(RowOutcome, fed)} :
        \A f \in Reorderings(Len(fed)) :
            LET r == RunOver(FreshLocals, f, oc)
            IN  r.leafh = leafh /\ r.allh = allh

C10_Witness ==
    /\ count_mode /\ pc = "done" /\ Len(fed) = 2
    /\ \E s \in slim : HGet(allh, s) = {P1, P2}
    /\ \E s, t \in slim : s # t /\ HGet(leafh, s) # {} /\ HGet(leafh, t) # {}

\* C6: after the slim set is loaded, from a slim file of either shape, every
\* id of the slim set is a key of the graph and its record in the graph is
\* not obsolete.
C6_SlimIsLive ==
    pc \in {"slim", "reading"} =>
        \A s \in slim : s \in DOMAIN terms /\ ~terms[s].is_obsolete

\* ------------------------------------------------------------ count mode
\* the product of a line
ProdOf(cols) == Extract(cols, gff, terms).prod

\* the lines read that survive: not skipped and resolved to a live graph term
Surviving == {k \in DOMAIN fed : RowTerm(fed[k], aspect, gff, terms) # None}

\* the graph term of surviving line k
TermOf(k) == RowTerm(fed[k], aspect, gff, terms)[1]

\* the products with a surviving line whose term is S or a descendant of S
ProductsUnder(S) ==
    {ProdOf(fed[k]) : k \in {j \in Surviving :
                                TermOf(j) = S \/ S \in Ancestors(TermOf(j), parents)}}

\* the products with a surviving line whose direct set holds S
ProductsAt(S) ==
    {ProdOf(fed[k]) : k \in {j \in Surviving : S \in RowOutcome(fed[j])[1][2][1]}}

\* C11: in count mode on an acyclic graph, the all count printed for slim
\* term S is the number of products with a surviving row whose term is S or
\* a descendant of S, and the leaf count is the number of products whose
\* surviving rows have S in their direct set.
C11_CountsCoverDescendants ==
    (count_mode /\ pc = "done" /\ Acyclic(parents)) =>
        \A i \in DOMAIN report :
            /\ report[i].count_all = Cardinality(ProductsUnder(report[i].id))
            /\ report[i].count_leaf = Cardinality(ProductsAt(report[i].id))

\* C12: a primary-shape row whose term column is an alternate id of a live
\* graph term T is mapped and counted exactly like the row that names T by
\* its canonical id.
C12_AltIdRowsMapped ==
    [][(/\ RowRead /\ NewRow = LineFor(AltId)
        /\ AltId \in DOMAIN alt2primary
        /\ alt2primary[AltId] \in DOMAIN terms
        /\ ~terms[alt2primary[AltId]].is_obsolete)
       => \E n \in RowEffects(Locals, LineFor(alt2primary[AltId]), {Ascending},
                               aspect, gff, count_mode, terms, slim, parents) :
             /\ leafh' = n.leafh /\ allh' = n.allh
             /\ out' = n.out]_vars

\* ------------------------------------------------------- flat slim lists
\* the id the first id token of a list line writes, None when the line holds
\* no id token before its comment
ListTokenId(str) ==
    LET m == FirstIdToken(Strip(BeforeHash(str))) IN
    IF m = None THEN None
    ELSE IF AllDigits(m[1]) THEN Some(DigitsValue(m[1]))
    ELSE Some(DigitsValue(SubSeq(m[1], 4, Len(m[1]))))

\* the ids the lines of the slim file contribute: the token's id resolved
\* through alt2primary, when it is a live graph term
ListSlim ==
    {g \in DOMAIN terms :
        /\ ~terms[g].is_obsolete
        /\ \E i \in DOMAIN slimfile :
              /\ ListTokenId(slimfile[i][2]) # None
              /\ LET n == ListTokenId(slimfile[i][2])[1]
                 IN  g = IF n \in DOMAIN alt2primary THEN alt2primary[n] ELSE n}

\* C13: loading a flat id list never fails, and its slim set holds exactly
\* the ids its lines write (GO: in any letter case and 7 digits, or 1 to 7
\* bare digits), resolved through alt2primary, that are live graph terms.
C13_ListLoadNeverFails ==
    (~looks_obo(slimfile) /\ pc \notin {"main", "parsed"}) =>
        (pc # "raised" /\ slim = ListSlim)

\* ----------------------------------------------------------------- C14
\* the [Term] stanzas of one file, in line order, each without its header
TermStanzasOf(lines) ==
    LET heads == {i \in DOMAIN lines : lines[i][1] \in {"[Term]", "[Typedef]"}}
        endOf(i) == IF \E j \in heads : j > i
                    THEN (CHOOSE j \in heads : j > i /\ \A k \in heads : k > i => j <= k) - 1
                    ELSE Len(lines)
        th == Sorted({i \in heads : lines[i][1] = "[Term]"})
    IN  [k \in DOMAIN th |-> SubSeq(lines, th[k] + 1, endOf(th[k]))]

\* the [Term] stanzas of the sources, in source order, then line order
AllStanzas(paths) == Concat([f \in DOMAIN paths |-> TermStanzasOf(paths[f])])

\* the values of the lines of stanza stz with tag tag
TagValues(stz, tag) == [k \in DOMAIN SelectSeq(stz, LAMBDA l : l[1] = tag) |->
                          SelectSeq(stz, LAMBDA l : l[1] = tag)[k][2]]

LastOr(vals, dflt) == IF vals = <<>> THEN dflt ELSE vals[Len(vals)]

\* the id a stanza carries, None without an id line
IdOf(stz) == IF TagValues(stz, "id") = <<>> THEN None ELSE Some(LastOr(TagValues(stz, "id"), 0))

\* the record a stanza describes by itself
RecordOf(stz) ==
    [id          |-> IdOf(stz)[1],
     name        |-> LastOr(TagValues(stz, "name"), <<>>),
     namespace   |-> LastOr(TagValues(stz, "namespace"), <<>>),
     is_obsolete |-> LastOr(TagValues(stz, "is_obsolete"), FALSE),
     alt_ids     |-> Range(TagValues(stz, "alt_id")),
     parents     |-> {<<p, "is_a">> : p \in Range(TagValues(stz, "is_a"))}
                       \cup {<<l[3], "part_of">> :
                               l \in {m \in Range(stz) : m[1] = "relationship" /\ m[2] = "part_of"}}]

Sources == <<slimfile>> \o ontfiles

\* positions in AllStanzas(Sources) of the stanzas that carry id t
Carrying(stzs, t) == {k \in DOMAIN stzs : IdOf(stzs[k]) = Some(t)}

MaxOf(S) == CHOOSE x \in S : \A y \in S : y <= x

\* C14: after parse_obo over the sources, the graph's keys are the ids carried
\* by some [Term] stanza, and the record of each id is the record of the last
\* stanza carrying it alone: no field of an earlier stanza of that id
\* survives, a stanza without an id line adds no term, and the stanza open at
\* the end of a file is committed.
C14_LastStanzaWins ==
    pc # "main" =>
        \A stzs \in {AllStanzas(Sources)} :
            /\ DOMAIN terms = {t \in Terms \cup {ObsoleteId, AltId} : Carrying(stzs, t) # {}}
            /\ \A t \in DOMAIN terms : terms[t] = RecordOf(stzs[MaxOf(Carrying(stzs, t))])

\* the slim file holds the old stanza of term 2, then a stanza without an id
\* open at the end of the file, and the ontology's stanza of term 2 replaced
\* every field of the old one
C14_Witness ==
    /\ pc = "parsed"
    /\ slimfile = <<<<"format-version">>>> \o OldStanza \o NoIdStanza
    /\ 2 \in DOMAIN terms
    /\ terms[2].alt_ids = {} /\ terms[2].name = TermName(2)
    /\ terms[2].namespace = <<>> /\ ~terms[2].is_obsolete
    /\ <<1, "part_of">> \notin terms[2].parents

\* ----------------------------------------------------------------- C18
\* C18: after parse_obo over the sources, every entry a -> c of alt2primary
\* names a key c of the graph whose record lists a among its alternate ids,
\* also when a later stanza replaced the record of c.
C18_AltMapConsistent ==
    pc # "main" =>
        \A a \in DOMAIN alt2primary :
            /\ alt2primary[a] \in DOMAIN terms
            /\ a \in terms[alt2primary[a]].alt_ids

\* ----------------------------------------------------------------- C15
MinOf(S) == CHOOSE x \in S : \A y \in S : x <= y

\* C15: in count mode on an acyclic graph the depth of a slim id is 0 when it
\* has no parent in the slim set, and otherwise 1 + the least depth of its
\* parents in the slim set, in whatever order roots and children are dequeued.
C15_DepthIsLeastOverSlimParents ==
    (count_mode /\ pc = "done" /\ Acyclic(parents)) =>
        \A s \in slim :
            DepthGet(depth, s) =
                IF SlimParents(s, slim, parents) = {} THEN 0
                ELSE 1 + MinOf({DepthGet(depth, q) : q \in SlimParents(s, slim, parents)})

\* a slim id with two slim parents of different depths took the lesser one
C15_Witness ==
    /\ count_mode /\ pc = "done" /\ Acyclic(parents)
    /\ \E s \in slim : \E p, q \in SlimParents(s, slim, parents) :
          /\ DepthGet(depth, p) < DepthGet(depth, q)
          /\ DepthGet(depth, s) = DepthGet(depth, p) + 1

\* ----------------------------------------------------------------- C17
\* C17: the sets the resolver returned satisfy direct \subseteq all
\* \subseteq slim, on an acyclic graph direct is empty exactly when all is
\* empty, and after the rows read so far every key of either counter is a
\* slim id whose leaf products are among its all products.
C17_DirectWithinAllWithinSlim ==
    /\ direct \subseteq all_anc
    /\ all_anc \subseteq slim
    /\ Acyclic(parents) => (direct = {} <=> all_anc = {})
    /\ \A s \in DOMAIN leafh \cup DOMAIN allh :
          /\ s \in slim
          /\ HGet(leafh, s) \subseteq HGet(allh, s)

\* a row was resolved to a direct set that is smaller than its all set, and
\* a slim id is counted in all without being counted in leaf
C17_Witness ==
    /\ fed # <<>>
    /\ direct # {} /\ direct # all_anc
    /\ \E s \in DOMAIN allh : HGet(leafh, s) = {} /\ HGet(allh, s) # {}
    /\ \E s \in DOMAIN leafh : HGet(leafh, s) # {}

\* ----------------------------------------------------------------- C16
\* the walk left its loop: the queue is empty, or the break of lines 261-262
WalkEnded(w) ==
    \/ w.q = <<>>
    \/ w.best_depth # None /\ Head(w.q)[2] > w.best_depth[1]

\* C16: on every parent map, cyclic ones included, and for every order of
\* iteration: once the row of a start outside the slim set is read, the
\* bounded walk from start has ended with an empty queue or its early break,
\* and the upward closures (of each candidate of the pruning step, of start
\* in the fallback) have ended with an empty queue; once the input is
\* exhausted in count mode, the depth loop has ended with an empty queue;
\* each within MaxPops iterations.
C16_TraversalsTerminate ==
    /\ (pc = "reading" /\ fed # <<>> /\ start \notin slim) =>
          \A ord \in Orders : \A w \in {BoundedWalk(start, slim, parents, ord)} :
              /\ WalkEnded(w) /\ w.pops <= NumTerms
              /\ \A d0 \in w.direct \cup {start} :
                    \A c \in {ClosureRun(d0, parents, ord)} :
                        c.dq = <<>> /\ c.pops <= NumTerms
    /\ (pc = "done" /\ count_mode) =>
          \A ord \in Orders : \A e \in {SlimDepths(slim, parents, ord)} :
              e.dq = <<>> /\ e.pops < MaxPops

\* the row of a start outside the slim set that lies on a cycle was read: the
\* walk and the fallback closure went round the cycle and found no slim id,
\* and the depth loop ran
C16_Witness ==
    /\ pc = "done" /\ fed # <<>>
    /\ start \notin slim /\ start \in Ancestors(start, parents)
    /\ all_anc = {}
    /\ depth # <<>>

====
